---------------------------- MODULE Spec2Model ----------------------------
(***************************************************************************)
(* ArchiFieldNote: the undo/redo history hook (src/hooks/use-undo.ts), the *)
(* page's commit handlers (src/unnamed/part_011, the page component) and   *)
(* the canvas tool state machine (src/unnamed/part_002, MapCanvas).        *)
(*                                                                         *)
(* Conventions.                                                            *)
(*  - JavaScript arrays are TLA+ sequences; a JavaScript index i is the    *)
(*    sequence index i + 1.  currentIndex keeps the code's 0-based value   *)
(*    (-1 for the empty history).                                          *)
(*  - "T | null" is a sequence of length 0 (null) or 1 (the value); an     *)
(*    object id that may be null is 0 for null.                            *)
(*  - React state is the value after every queued update has been         *)
(*    applied: a call is applied and rendered before the next one, and a   *)
(*    callback is the one of the latest render unless stated otherwise     *)
(*    (handlePointerMove's draggingImageId).                               *)
(***************************************************************************)
EXTENDS Integers, Sequences, FiniteSets, TLC

VARIABLES
    \* useUndo (src/hooks/use-undo.ts)
    history,            \* HistoryState[]: entries [objects |-> MapObject[]]
    currentIndex,       \* 0-based index into history, -1 when empty
    \* observation of the calls made on the hook (not program state)
    calls,              \* the last calls: [op, arg, ret, tip]
    pre,                \* history and currentIndex just before the last call
    pushLog,            \* snapshots pushed while only pushState was called
    onlyPushes,         \* TRUE until the first undo/redo call
    nCalls,             \* number of calls made on the hook
    \* the page component (src/unnamed/part_011)
    toolMode,           \* useState<ToolMode>
    sequenceMode,       \* useState(false)
    activeSequence,     \* the journey being recorded: Null or Some(objectIds)
    selectedObjectId,   \* 0 for null
    selectedImageId,    \* 0 for null
    propertiesOpen,
    pendingCalibration, \* Null or Some([start, end, pixelDistanceSq])
    calibrationDialog,
    isSaving,           \* useState(false), shown by the toolbar
    activeSequenceId,   \* the id of the activeSequence object, 0 for null
    seqCalls,           \* the handleSequenceAdd runs, in click order:
                        \* [objectId, pc, sequenceId, objectIds]
    \* useProject / IndexedDB (src/hooks/use-project.ts, src/lib/db.ts)
    objects,            \* the project's objects table as toArray() returns it
    foreignObjects,     \* the rows of the objects table of other projects
    sequences,          \* the sequences table: objectIds of journey 1, 2, ...
    usedIds,            \* object ids crypto.randomUUID() has handed out
    images,             \* project.images
    calibration,        \* Null or Some([points, ratioSq]) of the project
    nWrites,            \* number of committed writes to storage
    \* MapCanvas (src/unnamed/part_002)
    drawingVertices,
    isDrawing,
    editingVertexIndex, \* 0-based, -1 for null
    isDraggingVertex,
    draggingImageId,    \* 0 for null
    moveDraggingImageId, \* the draggingImageId handlePointerMove closed over
    transientImagePosition, \* Null or Some(point)
    dragStartRef,       \* Null or Some(point)
    initialImagePosRef, \* Null or Some(point)
    loadedImages,       \* ids of the images whose bitmap is decoded
    newImages,          \* ids decoded so far by the running image-loading effect
    \* the environment and the observation of the last handler
    pointerPressed,     \* the pointer is down on the canvas
    storageRejects,     \* the objects table rejects every request made now
    last                \* [op, arg, pushes, writes, rejected, before] of the
                        \* last handler run

undoVars == <<history, currentIndex>>
obsVars  == <<calls, pre, pushLog, onlyPushes, nCalls>>
pageVars == <<toolMode, sequenceMode, activeSequence, selectedObjectId,
              selectedImageId, propertiesOpen, pendingCalibration,
              calibrationDialog, isSaving, activeSequenceId, seqCalls>>
dbVars   == <<objects, foreignObjects, sequences, usedIds, images,
             calibration, nWrites>>
canvasVars == <<drawingVertices, isDrawing, editingVertexIndex,
                isDraggingVertex, draggingImageId, moveDraggingImageId,
                transientImagePosition,
                dragStartRef, initialImagePosRef, loadedImages,
                newImages>>
envVars  == <<pointerPressed, storageRejects, last>>
appVars  == <<pageVars, dbVars, canvasVars, envVars>>
vars     == <<undoVars, obsVars, appVars>>

(***************************************************************************)
(* Bounds.                                                                 *)
(***************************************************************************)
\* useUndo(maxHistory = 50): the depth of the log, scaled down.
maxHistory == 3
\* how many calls the observation window keeps
Window == 4
\* calls made on the hook in one behaviour of SpecUndo
MaxCalls == maxHistory + 5

Min(a, b) == IF a < b THEN a ELSE b

Null == <<>>
Some(x) == <<x>>

(***************************************************************************)
(* MapObject values used as snapshot contents in SpecUndo.                 *)
(***************************************************************************)
Pt(x, y) == [x |-> x, y |-> y]

\* MapObject (src/lib/db.ts): the fields the handlers read or write.  name,
\* metadata, projectId and the two timestamps are written once or copied
\* along and never read by a handler.
MapObject(id, type, verts, style) ==
    [id |-> id, type |-> type, vertices |-> verts, style |-> style]

\* JSON.parse(JSON.stringify(objects)): a fresh array of fresh objects with
\* the same enumerable fields; every field of a MapObject is a string, a
\* finite number, or an array/object of those, all of which JSON keeps.
JsonCloneObject(o) ==
    [id |-> o.id, type |-> o.type, style |-> o.style,
     vertices |-> [i \in 1..Len(o.vertices) |->
                      [x |-> o.vertices[i].x, y |-> o.vertices[i].y]]]

JsonClone(objs) == [i \in 1..Len(objs) |-> JsonCloneObject(objs[i])]

(***************************************************************************)
(* useUndo.                                                                *)
(***************************************************************************)
\* prev.slice(0, n) for n >= 0
Slice0(s, n) == SubSeq(s, 1, Min(n, Len(s)))

\* a log that drops its newest entry instead of its oldest
ShiftDropsNewest(s) == SubSeq(s, 1, Len(s) - 1)

\* newHistory.shift(): drop the first entry
Shift(s) == SubSeq(s, 2, Len(s))

canUndo(idx) == idx > 0

canRedo(idx, h) == idx < Len(h) - 1

\* a push that keeps the redo branch
pushStateHistoryNoTrunc(prev, idx, objs) ==
    prev \o <<[objects |-> JsonClone(objs)]>>

\* the updater given to setHistory; idx is the currentIndex the callback
\* captured, prev the state the updater is applied to
pushStateHistoryTrunc(prev, idx, objs) ==
    Slice0(prev, idx + 1) \o <<[objects |-> JsonClone(objs)]>>

pushStateHistory(prev, idx, objs) ==
    LET newHistory == pushStateHistoryTrunc(prev, idx, objs)
    IN  IF Len(newHistory) > maxHistory THEN Shift(newHistory) ELSE newHistory

\* the updater given to setCurrentIndex
pushStateIndex(prev) == Min(prev + 1, maxHistory - 1)

\* an undo that moves the index without looking at canUndo
undoIndexUnguarded(idx) == idx - 1

\* an undo that returns the entry it leaves instead of the one it reaches
undoResultCurrent(idx, h) ==
    IF canUndo(idx) /\ idx + 1 <= Len(h) THEN Some(h[idx + 1].objects)
                                          ELSE Null

\* "history[newIndex].objects" where history[newIndex] is undefined: the
\* call ends with this exception instead of a value
TypeError == <<"TypeError">>

\* history[newIndex].objects for a 0-based newIndex >= 0
EntryObjects(h, newIndex) ==
    IF newIndex + 1 <= Len(h) THEN Some(h[newIndex + 1].objects) ELSE TypeError

\* undo(): the returned value and the index it sets
undoIndex(idx) == IF canUndo(idx) THEN idx - 1 ELSE idx

undoResult(idx, h) ==
    IF canUndo(idx) THEN EntryObjects(h, idx - 1) ELSE Null

redoIndex(idx, h) == IF canRedo(idx, h) THEN idx + 1 ELSE idx

redoResult(idx, h) ==
    IF canRedo(idx, h) THEN EntryObjects(h, idx + 1) ELSE Null

(***************************************************************************)
(* Observation of calls.                                                   *)
(***************************************************************************)
Observe(op, arg, ret) ==
    LET c == [op |-> op, arg |-> arg, ret |-> ret,
              tip |-> (currentIndex = Len(history) - 1)]
        all == calls \o <<c>>
    IN  /\ nCalls < MaxCalls
        /\ nCalls' = nCalls + 1
        /\ calls' = IF Len(all) > Window THEN SubSeq(all, 2, Len(all)) ELSE all
        /\ pre' = [history |-> history, currentIndex |-> currentIndex]

\* snapshots handed to pushState in SpecUndo
SnapA == <<>>
SnapB == <<MapObject(1, "threshold", <<Pt(0, 0), Pt(100, 0)>>, "threshold")>>
SnapInputs == {SnapA, SnapB}

\* the hook and its observation after construction
InitUndo ==
    /\ history = <<>>
    /\ currentIndex = -1
    /\ calls = <<>>
    /\ pre = [history |-> <<>>, currentIndex |-> -1]
    /\ pushLog = <<>>
    /\ onlyPushes = TRUE
    /\ nCalls = 0

\* the page and the canvas after mounting
InitPage ==
    /\ toolMode = "pan"
    /\ sequenceMode = FALSE
    /\ activeSequence = Null
    /\ selectedObjectId = 0
    /\ selectedImageId = 0
    /\ propertiesOpen = FALSE
    /\ pendingCalibration = Null
    /\ calibrationDialog = FALSE
    /\ isSaving = FALSE
    /\ activeSequenceId = 0
    /\ seqCalls = <<>>

InitCanvas ==
    /\ drawingVertices = <<>>
    /\ isDrawing = FALSE
    /\ editingVertexIndex = -1
    /\ isDraggingVertex = FALSE
    /\ draggingImageId = 0
    /\ moveDraggingImageId = 0
    /\ transientImagePosition = Null
    /\ dragStartRef = Null
    /\ initialImagePosRef = Null
    /\ loadedImages = {}
    /\ newImages = {}

InitEnv ==
    /\ pointerPressed = FALSE
    /\ storageRejects = FALSE
    /\ last = [op |-> "mount", arg |-> Null, pushes |-> 0, writes |-> 0,
               rejected |-> FALSE, before |-> Null]

\* a project that was just created: no object, no image, no calibration
InitDbEmpty ==
    /\ objects = <<>>
    /\ foreignObjects = <<>>
    /\ sequences = <<>>
    /\ usedIds = {}
    /\ images = <<>>
    /\ calibration = Null
    /\ nWrites = 0

Init == InitUndo /\ InitPage /\ InitCanvas /\ InitEnv /\ InitDbEmpty

PushStateCall ==
    \E objs \in SnapInputs :
        /\ history' = pushStateHistory(history, currentIndex, objs)
        /\ currentIndex' = pushStateIndex(currentIndex)
        /\ Observe("pushState", Some(objs), Null)
        /\ pushLog' = IF onlyPushes THEN Append(pushLog, objs) ELSE <<>>
        /\ UNCHANGED <<onlyPushes, appVars>>

UndoCall ==
    /\ currentIndex' = undoIndex(currentIndex)
    /\ UNCHANGED history
    /\ Observe("undo", Null, undoResult(currentIndex, history))
    /\ onlyPushes' = FALSE
    /\ pushLog' = <<>>
    /\ UNCHANGED appVars

RedoCall ==
    /\ currentIndex' = redoIndex(currentIndex, history)
    /\ UNCHANGED history
    /\ Observe("redo", Null, redoResult(currentIndex, history))
    /\ onlyPushes' = FALSE
    /\ pushLog' = <<>>
    /\ UNCHANGED appVars

NextUndo == PushStateCall \/ UndoCall \/ RedoCall

SpecUndo == Init /\ [][NextUndo]_vars

(***************************************************************************)
(* Properties of the history hook, checked under SpecUndo.                 *)
(***************************************************************************)
LastCall == calls[Len(calls)]

\* the last n calls, oldest first
LastCalls(n) == SubSeq(calls, Len(calls) - n + 1, Len(calls))

PushPushUndoRedo ==
    /\ Len(calls) >= 4
    /\ LastCalls(4)[1].op = "pushState"
    /\ LastCalls(4)[2].op = "pushState"
    /\ LastCalls(4)[3].op = "undo"
    /\ LastCalls(4)[4].op = "redo"

\* C1: after pushState(s1), pushState(s2), each applied before the next
\* call, undo() returns a snapshot equal to s1 and the redo() right after it
\* returns a snapshot equal to s2.
C1_UndoRedoAfterTwoPushes ==
    PushPushUndoRedo =>
        /\ LastCalls(4)[3].ret = LastCalls(4)[1].arg
        /\ LastCalls(4)[4].ret = LastCalls(4)[2].arg

C1_Witness ==
    /\ PushPushUndoRedo
    /\ LastCalls(4)[1].arg # LastCalls(4)[2].arg
    /\ LastCalls(4)[3].ret = Some(SnapA)
    /\ LastCalls(4)[4].ret = Some(SnapB)

PushFromNonTip(c) == c.op = "pushState" /\ ~c.tip

\* C2: a pushState called while currentIndex is not the last index removes
\* every entry after currentIndex before appending, so the new snapshot is
\* the last entry, currentIndex points at it, and a redo() issued right
\* after that push returns null.
C2_PushDiscardsRedoBranch ==
    /\ (Len(calls) >= 1 /\ PushFromNonTip(LastCall)) =>
          /\ history = SubSeq(pre.history, 1, pre.currentIndex + 1)
                          \o <<[objects |-> LastCall.arg[1]]>>
          /\ currentIndex = Len(history) - 1
    /\ (Len(calls) >= 2 /\ PushFromNonTip(LastCalls(2)[1])
                        /\ LastCall.op = "redo") =>
          /\ LastCall.ret = Null
          /\ history[Len(history)].objects = LastCalls(2)[1].arg[1]

C2_Witness ==
    /\ Len(calls) >= 3
    /\ LastCalls(3)[1].op = "undo" /\ LastCalls(3)[1].ret # Null
    /\ PushFromNonTip(LastCalls(3)[2])
    /\ LastCall.op = "redo"
    /\ Len(history) = 2

\* C3: with maxHistory = N, after N + 5 consecutive pushState calls on an
\* empty history the log holds exactly N snapshots, they are the last N
\* pushed in push order, and currentIndex = N - 1.
C3_DepthAfterOverflow ==
    (onlyPushes /\ Len(pushLog) = maxHistory + 5) =>
        /\ Len(history) = maxHistory
        /\ \A i \in 1..maxHistory : history[i].objects = pushLog[5 + i]
        /\ currentIndex = maxHistory - 1

C3_Witness ==
    /\ onlyPushes
    /\ Len(pushLog) = maxHistory + 5
    /\ pushLog[5] # pushLog[6]
    /\ pushLog[1] # pushLog[maxHistory + 5]

\* C4: undo() returns a snapshot exactly when currentIndex > 0, and then
\* decrements currentIndex and returns the snapshot at the new index;
\* redo() returns a snapshot exactly when currentIndex < log.length - 1, and
\* then increments currentIndex; otherwise each returns null and leaves the
\* log and currentIndex unchanged.
C4_UndoRedoGuards ==
    Len(calls) >= 1 =>
        /\ history = pre.history \/ LastCall.op = "pushState"
        /\ LastCall.op = "undo" =>
              /\ (LastCall.ret # Null) <=> (pre.currentIndex > 0)
              /\ pre.currentIndex > 0 =>
                    /\ currentIndex = pre.currentIndex - 1
                    /\ LastCall.ret = Some(history[currentIndex + 1].objects)
              /\ ~(pre.currentIndex > 0) => currentIndex = pre.currentIndex
        /\ LastCall.op = "redo" =>
              /\ (LastCall.ret # Null) <=>
                    (pre.currentIndex < Len(pre.history) - 1)
              /\ pre.currentIndex < Len(pre.history) - 1 =>
                    /\ currentIndex = pre.currentIndex + 1
                    /\ LastCall.ret = Some(history[currentIndex + 1].objects)
              /\ ~(pre.currentIndex < Len(pre.history) - 1) =>
                    currentIndex = pre.currentIndex

\* both outcomes of both calls have happened: a refused undo at the oldest
\* entry followed by a redo that succeeds, then a redo refused at the tip
C4_Witness ==
    /\ Len(calls) >= 3
    /\ LastCalls(3)[1].op = "undo" /\ LastCalls(3)[1].ret = Null
    /\ LastCalls(3)[2].op = "redo" /\ LastCalls(3)[2].ret # Null
    /\ LastCall.op = "redo" /\ LastCall.ret = Null
    /\ Len(history) = 2

(***************************************************************************)
(* Geometry (src/lib/canvas-utils.ts).  Canvas coordinates are integers;   *)
(* a distance is compared through its square, and a quotient through the   *)
(* product with its divisor, so every comparison is exact.                 *)
(***************************************************************************)
Max(a, b) == IF a > b THEN a ELSE b

\* getDistance(p1, p2) squared
DistSq(p1, p2) ==
    (p2.x - p1.x) * (p2.x - p1.x) + (p2.y - p1.y) * (p2.y - p1.y)

\* the test of one edge (i, j) in isPointInPolygon:
\*   yi > y !== yj > y  &&  x < (xj - xi) * (y - yi) / (yj - yi) + xi
\* the first conjunct makes yj - yi non-zero
EdgeCrossed(point, vi, vj) ==
    /\ (vi.y > point.y) # (vj.y > point.y)
    /\ LET n == (vj.x - vi.x) * (point.y - vi.y)
           d == vj.y - vi.y
       IN  IF d > 0 THEN (point.x - vi.x) * d < n
                    ELSE (point.x - vi.x) * d > n

\* inside is toggled once per crossed edge, starting from false
isPointInPolygon(point, vertices) ==
    LET n == Len(vertices)
        prevIdx(i) == IF i = 1 THEN n ELSE i - 1
        crossed == {i \in 1..n :
                       EdgeCrossed(point, vertices[i], vertices[prevIdx(i)])}
    IN  Cardinality(crossed) % 2 = 1

\* distance from point to the segment, compared with threshold
isPointNearLine(point, lineStart, lineEnd, threshold) ==
    LET A == point.x - lineStart.x
        B == point.y - lineStart.y
        C == lineEnd.x - lineStart.x
        D == lineEnd.y - lineStart.y
        dot == A * C + B * D
        lenSq == C * C + D * D
        tSq == threshold * threshold
    IN  IF lenSq = 0 \/ dot < 0 THEN DistSq(point, lineStart) < tSq
        ELSE IF dot > lenSq THEN DistSq(point, lineEnd) < tSq
        ELSE (A * A + B * B) * lenSq - dot * dot < tSq * lenSq

isPointNearPath(point, path, threshold) ==
    \E i \in 1..(Len(path) - 1) :
        isPointNearLine(point, path[i], path[i + 1], threshold)

\* hitTestObject's default threshold
HitThreshold == 15

\* the triangle drawn for a "triangle" object, with every coordinate doubled
\* so that minX + w / 2 stays an integer
TriangleDoubled(v1, v2) ==
    LET minX == Min(v1.x, v2.x)
        maxX == Max(v1.x, v2.x)
        minY == Min(v1.y, v2.y)
        maxY == Max(v1.y, v2.y)
    IN  <<Pt(2 * minX + (maxX - minX), 2 * minY),
          Pt(2 * maxX, 2 * maxY),
          Pt(2 * minX, 2 * maxY)>>

hitTestObject(point, obj) ==
    LET v == obj.vertices
    IN  IF obj.type = "polygon" THEN isPointInPolygon(point, v)
        ELSE IF obj.type = "threshold" /\ Len(v) = 2
            THEN isPointNearLine(point, v[1], v[2], HitThreshold)
        ELSE IF obj.type = "freehand" /\ Len(v) > 1
            THEN isPointNearPath(point, v, HitThreshold)
        ELSE IF obj.type = "circle" /\ Len(v) = 2
            THEN DistSq(point, v[1]) <= DistSq(v[1], v[2])
        ELSE IF obj.type = "square" /\ Len(v) = 2
            THEN /\ point.x >= Min(v[1].x, v[2].x)
                 /\ point.x <= Max(v[1].x, v[2].x)
                 /\ point.y >= Min(v[1].y, v[2].y)
                 /\ point.y <= Max(v[1].y, v[2].y)
        ELSE IF obj.type = "triangle" /\ Len(v) = 2
            THEN isPointInPolygon(Pt(2 * point.x, 2 * point.y),
                                  TriangleDoubled(v[1], v[2]))
        ELSE FALSE

\* the loop "for (i = objects.length - 1; i >= 0; i--) if (hitTestObject ..."
\* of handlePointerDown: the sequence index of the first hit, 0 for none
TopHit(objs, point) ==
    LET hits == {i \in 1..Len(objs) : hitTestObject(point, objs[i])}
    IN  IF hits = {} THEN 0 ELSE CHOOSE i \in hits : \A j \in hits : j <= i


(***************************************************************************)
(* The program state as one record.  A handler is an operator from the     *)
(* state it runs in to the state it leaves once its awaited storage calls  *)
(* and the refetch it ends with have completed; handlers call one another  *)
(* as the code does.  ok is FALSE once a handler needed more than the      *)
(* bounds allow (a fresh id, one more write, a longer journey).  fresh is  *)
(* TRUE once the handler stored a new array in drawingVertices or          *)
(* refetched the project: either gives handlePointerMove a new dependency. *)
(* refetched is TRUE once the handler ran fetchData, which stores a new     *)
(* project object and so starts the image-loading effect again.  thrown is *)
(* TRUE once an awaited storage request of the handler was rejected: the   *)
(* async handler ends there, its caller goes on.                           *)
(***************************************************************************)
AppState ==
    [history |-> history, currentIndex |-> currentIndex,
     toolMode |-> toolMode, sequenceMode |-> sequenceMode,
     activeSequence |-> activeSequence,
     selectedObjectId |-> selectedObjectId,
     selectedImageId |-> selectedImageId,
     propertiesOpen |-> propertiesOpen,
     pendingCalibration |-> pendingCalibration,
     calibrationDialog |-> calibrationDialog, isSaving |-> isSaving,
     activeSequenceId |-> activeSequenceId,
     objects |-> objects, foreignObjects |-> foreignObjects,
     usedIds |-> usedIds, images |-> images,
     calibration |-> calibration, nWrites |-> nWrites,
     drawingVertices |-> drawingVertices, isDrawing |-> isDrawing,
     editingVertexIndex |-> editingVertexIndex,
     isDraggingVertex |-> isDraggingVertex,
     draggingImageId |-> draggingImageId,
     moveDraggingImageId |-> moveDraggingImageId,
     transientImagePosition |-> transientImagePosition,
     dragStartRef |-> dragStartRef,
     initialImagePosRef |-> initialImagePosRef,
     loadedImages |-> loadedImages, newImages |-> newImages,
     pointerPressed |-> pointerPressed, storageRejects |-> storageRejects,
     last |-> last,
     ok |-> TRUE, fresh |-> FALSE, refetched |-> FALSE, thrown |-> FALSE]

\* the state in which handler op starts on input arg
Begin(op, arg) ==
    [AppState EXCEPT !.last = [op |-> op, arg |-> arg,
                               pushes |-> 0, writes |-> 0,
                               rejected |-> FALSE, before |-> Null]]

(***************************************************************************)
(* Bounds of the application model.                                        *)
(***************************************************************************)
\* object ids crypto.randomUUID() can return
MaxShapes == 1
\* committed storage writes in one behaviour
MaxWrites == 2
\* vertices the polygon buffer may hold
MaxBuf == 3
\* objects one journey may hold
MaxJourney == 2

Ids == 1..MaxShapes

(***************************************************************************)
(* Storage (src/lib/db.ts) as seen through useProject: objects is the      *)
(* table read back by fetchData, in primary-key order.                     *)
(***************************************************************************)
Find(objs, id) ==
    LET found == {i \in 1..Len(objs) : objs[i].id = id}
    IN  IF found = {} THEN Null ELSE Some(objs[CHOOSE i \in found : TRUE])

InsertById(objs, o) ==
    LET k == Cardinality({i \in 1..Len(objs) : objs[i].id < o.id})
    IN  SubSeq(objs, 1, k) \o <<o>> \o SubSeq(objs, k + 1, Len(objs))

RemoveById(objs, id) == SelectSeq(objs, LAMBDA o : o.id # id)

\* { ...o, ...updates }
Merge(o, updates) ==
    [f \in DOMAIN o |-> IF f \in DOMAIN updates THEN updates[f] ELSE o[f]]

\* one more committed write
Written(s) ==
    [s EXCEPT !.nWrites = @ + 1, !.ok = @ /\ s.nWrites < MaxWrites,
              !.fresh = TRUE, !.refetched = TRUE]

\* one more committed write to the objects table; before keeps the
\* collection the handler started from
ObjectsWritten(s) ==
    [Written(s) EXCEPT !.last.writes = @ + 1, !.last.before = Some(objects)]

\* a request to the objects table that is rejected: the awaiting handler
\* ends with the exception
Rejected(s) == [s EXCEPT !.thrown = TRUE, !.last.rejected = TRUE]

\* createMapObject; id is the value crypto.randomUUID() returns, 0 when the
\* bound on ids is used up
createMapObject(s, id, type, vertices, style) ==
    IF s.storageRejects THEN Rejected(s)
    ELSE IF id = 0 THEN [s EXCEPT !.ok = FALSE]
    ELSE ObjectsWritten([s EXCEPT
             !.objects = InsertById(@, MapObject(id, type, vertices, style)),
             !.usedIds = @ \cup {id}])

\* updateMapObject: Dexie's update() changes nothing when the key is absent
updateMapObject(s, id, updates) ==
    IF s.storageRejects THEN Rejected(s)
    ELSE IF Find(s.objects, id) = Null THEN s
    ELSE ObjectsWritten([s EXCEPT !.objects =
             [i \in 1..Len(@) |-> IF @[i].id = id THEN Merge(@[i], updates)
                                                  ELSE @[i]]])

deleteMapObject(s, id) ==
    IF s.storageRejects THEN Rejected(s)
    ELSE IF Find(s.objects, id) = Null THEN s
    ELSE ObjectsWritten([s EXCEPT !.objects = RemoveById(@, id)])

\* updateImage of useProject
updateImage(s, imageId, updates) ==
    Written([s EXCEPT !.images =
        [i \in 1..Len(@) |-> IF @[i].id = imageId THEN Merge(@[i], updates)
                                                  ELSE @[i]]])

\* setCalibration of useProject: the ratio pixelDistance / realWorldMeters is
\* kept as its square, the fraction [num, den]
setCalibration(s, points, realWorldMeters, pixelDistanceSq) ==
    Written([s EXCEPT !.calibration =
        Some([calibrationPoints |-> points,
              ratioSq |-> [num |-> pixelDistanceSq,
                           den |-> realWorldMeters * realWorldMeters]])])

(***************************************************************************)
(* The page's handlers (src/unnamed/part_011).                             *)
(***************************************************************************)
getDefaultStyle(type) ==
    IF type \in {"circle", "square", "triangle"} THEN "shape" ELSE type

\* pushState of useUndo as the page calls it
pushState(s, objs) ==
    [s EXCEPT !.history = pushStateHistory(s.history, s.currentIndex, objs),
              !.currentIndex = pushStateIndex(s.currentIndex),
              !.last.pushes = @ + 1]

handleSelectObject(s, id) ==
    [s EXCEPT !.selectedObjectId = id,
              !.propertiesOpen = IF id # 0 THEN TRUE ELSE @]

handleSelectImage(s, id) ==
    [s EXCEPT !.selectedImageId = id,
              !.selectedObjectId = IF id # 0 THEN 0 ELSE @,
              !.propertiesOpen = IF id # 0 THEN FALSE ELSE @]

\* setIsSaving(true) at the start of a commit handler
Saving(s) == [s EXCEPT !.isSaving = TRUE]

\* setIsSaving(false) after the awaited request: not reached when it threw
Saved(s) == IF s.thrown THEN s ELSE [s EXCEPT !.isSaving = FALSE]

handleUpdateObject(s, updates) ==
    IF s.selectedObjectId # 0
    THEN LET w == updateMapObject(Saving(s), s.selectedObjectId, updates)
         IN  IF w.thrown THEN w ELSE Saved(pushState(w, s.objects))
    ELSE s

handleDeleteObject(s) ==
    IF s.selectedObjectId # 0
    THEN LET d == deleteMapObject(pushState(Saving(s), s.objects),
                                  s.selectedObjectId)
         IN  IF d.thrown THEN d
             ELSE Saved([d EXCEPT !.selectedObjectId = 0,
                                  !.propertiesOpen = FALSE,
                                  !.toolMode = "select"])
    ELSE s

handleDeleteObjectById(s, id) ==
    LET d == deleteMapObject(pushState(Saving(s), s.objects), id)
    IN  IF d.thrown THEN d
        ELSE IF s.selectedObjectId = id
        THEN Saved([d EXCEPT !.selectedObjectId = 0, !.propertiesOpen = FALSE])
        ELSE Saved(d)

\* a style paste that leaves the tool as it was
handleMatchStyleKeepsTool(s, style) ==
    IF s.selectedObjectId # 0
    THEN Saved(updateMapObject(Saving(s), s.selectedObjectId,
                               [style |-> style]))
    ELSE s

handleMatchStyle(s, style) ==
    IF s.selectedObjectId # 0
    THEN LET w == updateMapObject(Saving(s), s.selectedObjectId,
                                  [style |-> style])
         IN  IF w.thrown THEN w ELSE Saved([w EXCEPT !.toolMode = "select"])
    ELSE s

handleVertexUpdate(s, objectId, vertices) ==
    Saved(updateMapObject(Saving(s), objectId, [vertices |-> vertices]))

handleEditVertices(s) ==
    [s EXCEPT !.toolMode = "editVertices", !.propertiesOpen = FALSE]

\* the project's rows after every row of the table, of whatever project,
\* was deleted and every object of the snapshot added
Replayed(snapshot) ==
    LET ids == {snapshot[i].id : i \in 1..Len(snapshot)}
        rank(i) == Cardinality({j \in ids : j < snapshot[i].id}) + 1
    IN  [k \in 1..Len(snapshot) |->
            snapshot[CHOOSE i \in 1..Len(snapshot) : rank(i) = k]]

handleUndo(s) ==
    LET prevState == undoResult(s.currentIndex, s.history)
        u == [s EXCEPT !.currentIndex = undoIndex(s.currentIndex)]
    IN  IF prevState # Null
        THEN IF s.storageRejects THEN Rejected(u)
             ELSE [u EXCEPT !.objects = Replayed(prevState[1]),
                            !.foreignObjects = <<>>,
                            !.fresh = TRUE, !.refetched = TRUE]
        ELSE u

handleRedo(s) ==
    LET nextState == redoResult(s.currentIndex, s.history)
        r == [s EXCEPT !.currentIndex = redoIndex(s.currentIndex, s.history)]
    IN  IF nextState # Null
        THEN IF s.storageRejects THEN Rejected(r)
             ELSE [r EXCEPT !.objects = Replayed(nextState[1]),
                            !.foreignObjects = <<>>,
                            !.fresh = TRUE, !.refetched = TRUE]
        ELSE r

\* the four creating handlers end alike
Created(s, id) ==
    IF s.thrown THEN s
    ELSE [s EXCEPT !.toolMode = "select", !.selectedObjectId = id,
                   !.propertiesOpen = TRUE]

\* a polygon commit that leaves the tool and the selection as they were
handlePolygonCompleteKeepsTool(s, id, vertices) ==
    Saved(createMapObject(pushState(Saving(s), s.objects), id, "polygon",
                          vertices, getDefaultStyle("polygon")))

handlePolygonComplete(s, id, vertices) ==
    Saved(Created(createMapObject(pushState(Saving(s), s.objects), id,
                                  "polygon", vertices,
                                  getDefaultStyle("polygon")), id))

handleThresholdComplete(s, id, start, end) ==
    Saved(Created(createMapObject(pushState(Saving(s), s.objects), id,
                                  "threshold", <<start, end>>,
                                  getDefaultStyle("threshold")), id))

handleFreehandComplete(s, id, vertices) ==
    LET type == IF s.toolMode = "highlighter" THEN "highlighter"
                                              ELSE "freehand"
        c == createMapObject(pushState(Saving(s), s.objects), id, "freehand",
                             vertices, getDefaultStyle(type))
    IN  Saved(IF s.toolMode # "highlighter" THEN Created(c, id) ELSE c)

handleShapeComplete(s, id, type, vertices) ==
    Saved(Created(createMapObject(pushState(Saving(s), s.objects), id, type,
                                  vertices, getDefaultStyle(type)), id))

\* a second calibrate click that stores the calibration at once, for 1 metre
handleCalibrationCompleteCommits(s, start, end, pixelDistanceSq) ==
    setCalibration(s, [start |-> start, end |-> end], 1, pixelDistanceSq)

handleCalibrationComplete(s, start, end, pixelDistanceSq) ==
    [s EXCEPT !.pendingCalibration =
                  Some([start |-> start, end |-> end,
                        pixelDistanceSq |-> pixelDistanceSq]),
              !.calibrationDialog = TRUE]

confirmCalibration(s, realWorldMeters) ==
    IF s.pendingCalibration # Null
    THEN [setCalibration(s, [start |-> s.pendingCalibration[1].start,
                             end |-> s.pendingCalibration[1].end],
                         realWorldMeters,
                         s.pendingCalibration[1].pixelDistanceSq)
             EXCEPT !.pendingCalibration = Null, !.toolMode = "select",
                    !.isSaving = FALSE]
    ELSE s

\* a journey that grows at its front
handleSequenceAddInFront(s, objectId) ==
    LET ids == IF s.activeSequence = Null THEN <<>> ELSE s.activeSequence[1]
    IN  [s EXCEPT !.activeSequence = Some(<<objectId>> \o ids),
                  !.ok = @ /\ Len(ids) < MaxJourney]

handleSequenceAdd(s, objectId) ==
    LET ids == IF s.activeSequence = Null THEN <<>> ELSE s.activeSequence[1]
    IN  [s EXCEPT !.activeSequence = Some(Append(ids, objectId)),
                  !.ok = @ /\ Len(ids) < MaxJourney]

toggleSequenceMode(s, enabled) ==
    [s EXCEPT !.sequenceMode = enabled,
              !.activeSequence = IF enabled THEN @ ELSE Null,
              !.activeSequenceId = IF enabled THEN @ ELSE 0]


(***************************************************************************)
(* MapCanvas (src/unnamed/part_002).                                       *)
(***************************************************************************)
SNAP_THRESHOLD == 15

\* findVertexNear's threshold
VertexThreshold == 20

\* "displaySettings.freehandSmoothing || 3" with the default setting
MinDistance == 3

\* handlePointerUp commits a freehand stroke of more than this many points
FreehandMinPoints == 5

\* finishPolygon commits a buffer of at least this many vertices
PolygonMinVertices == 3

\* width and height of a decoded bitmap times the image's scale
ImgW == 100
ImgH == 100

ShapeTools == {"circle", "square", "triangle"}

\* the 0-based index of the first vertex nearer than the threshold, -1 for
\* null
findVertexNear(coords, obj) ==
    LET near == {i \in 1..Len(obj.vertices) :
                    DistSq(coords, obj.vertices[i])
                        < VertexThreshold * VertexThreshold}
    IN  IF near = {} THEN -1
        ELSE (CHOOSE i \in near : \A j \in near : i <= j) - 1

\* the first vertex, in table order then vertex order, of an object other
\* than excludeObjectId that is nearer than SNAP_THRESHOLD; else coords
snapToNearbyVertex(objs, coords, excludeObjectId) ==
    LET slots == UNION {{<<i, j>> : j \in 1..Len(objs[i].vertices)} :
                           i \in 1..Len(objs)}
        near == {ij \in slots :
                    /\ objs[ij[1]].id # excludeObjectId
                    /\ DistSq(coords, objs[ij[1]].vertices[ij[2]])
                           < SNAP_THRESHOLD * SNAP_THRESHOLD}
        first == CHOOSE ij \in near : \A kl \in near :
                    \/ ij[1] < kl[1]
                    \/ (ij[1] = kl[1] /\ ij[2] <= kl[2])
    IN  IF near = {} THEN coords
        ELSE Pt(objs[first[1]].vertices[first[2]].x,
                objs[first[1]].vertices[first[2]].y)

\* an array slot that was never assigned
Hole == [hole |-> TRUE]

\* "a = [...arr]; a[i] = v" for a 0-based i: a beyond-the-end index extends
\* the array, leaving holes in between
ArraySet(arr, i, v) ==
    [k \in 1..Max(Len(arr), i + 1) |->
        IF k = i + 1 THEN v ELSE IF k <= Len(arr) THEN arr[k] ELSE Hole]

\* the image the pointer-down loop stops at: images by descending zIndex,
\* skipping hidden and undecoded ones; 0 for none.  zIndex is the position
\* in project.images.
TopImageHit(s, coords) ==
    LET hits == {i \in 1..Len(s.images) :
                    /\ s.images[i].visible
                    /\ s.images[i].id \in s.loadedImages
                    /\ coords.x >= s.images[i].position.x
                    /\ coords.x <= s.images[i].position.x + ImgW
                    /\ coords.y >= s.images[i].position.y
                    /\ coords.y <= s.images[i].position.y + ImgH}
    IN  IF hits = {} THEN 0 ELSE CHOOSE i \in hits : \A j \in hits : j <= i

\* the select branch of handlePointerDown
PointerDownSelect(s, coords) ==
    LET hit == TopHit(s.objects, coords)
        img == TopImageHit(s, coords)
    IN  IF hit # 0
        THEN IF s.sequenceMode THEN handleSequenceAdd(s, s.objects[hit].id)
             ELSE handleSelectObject(s, s.objects[hit].id)
        ELSE IF ~s.sequenceMode
        THEN IF img # 0
             THEN LET sel == handleSelectObject(
                                 handleSelectImage(s, s.images[img].id), 0)
                  IN  IF ~s.images[img].locked
                      THEN [sel EXCEPT
                               !.draggingImageId = s.images[img].id,
                               !.dragStartRef = Some(coords),
                               !.initialImagePosRef =
                                   Some(s.images[img].position)]
                      ELSE sel
             ELSE handleSelectObject(handleSelectImage(s, 0), 0)
        ELSE handleSelectObject(s, 0)

\* the threshold / calibrate branch of handlePointerDown
PointerDownLine(s, coords, id) ==
    IF Len(s.drawingVertices) = 0
    THEN [s EXCEPT !.fresh = TRUE, !.drawingVertices = <<coords>>,
                       !.isDrawing = TRUE]
    ELSE IF Len(s.drawingVertices) = 1
    THEN LET start == s.drawingVertices[1]
             done == IF s.toolMode = "threshold"
                     THEN handleThresholdComplete(s, id, start, coords)
                     ELSE handleCalibrationComplete(s, start, coords,
                                                    DistSq(start, coords))
         IN  [done EXCEPT !.fresh = TRUE, !.drawingVertices = <<>>,
                    !.isDrawing = FALSE]
    ELSE s

\* handlePointerDown; id is what crypto.randomUUID() returns if it is called
handlePointerDown(s, coords, id) ==
    LET selectedObj == Find(s.objects, s.selectedObjectId)
    IN  IF s.toolMode = "pan" THEN s
        ELSE IF /\ s.toolMode = "editVertices"
                /\ s.selectedObjectId # 0
                /\ selectedObj # Null
                /\ findVertexNear(coords, selectedObj[1]) # -1
        THEN [s EXCEPT !.editingVertexIndex =
                           findVertexNear(coords, selectedObj[1]),
                       !.isDraggingVertex = TRUE]
        ELSE IF s.toolMode = "select" \/ s.sequenceMode
        THEN PointerDownSelect(s, coords)
        ELSE IF s.toolMode = "polygon"
        THEN [s EXCEPT !.fresh = TRUE, !.drawingVertices = Append(@, coords),
                       !.isDrawing = TRUE,
                       !.ok = @ /\ Len(s.drawingVertices) < MaxBuf]
        ELSE IF s.toolMode \in {"freehand", "highlighter"} \cup ShapeTools
        THEN [s EXCEPT !.fresh = TRUE, !.drawingVertices = <<coords>>,
                       !.isDrawing = TRUE]
        ELSE IF s.toolMode = "eraser"
        THEN IF TopHit(s.objects, coords) # 0
             THEN handleDeleteObjectById(
                      s, s.objects[TopHit(s.objects, coords)].id)
             ELSE s
        ELSE IF s.toolMode = "match"
        THEN IF TopHit(s.objects, coords) # 0
             THEN handleMatchStyle(
                      s, s.objects[TopHit(s.objects, coords)].style)
             ELSE s
        ELSE IF s.toolMode \in {"threshold", "calibrate"}
        THEN PointerDownLine(s, coords, id)
        ELSE s

handlePointerMove(s, coords) ==
    LET selectedObj == Find(s.objects, s.selectedObjectId)
    IN  IF /\ s.moveDraggingImageId # 0
           /\ s.dragStartRef # Null
           /\ s.initialImagePosRef # Null
        THEN [s EXCEPT !.transientImagePosition =
                 Some(Pt(s.initialImagePosRef[1].x
                             + (coords.x - s.dragStartRef[1].x),
                         s.initialImagePosRef[1].y
                             + (coords.y - s.dragStartRef[1].y)))]
        ELSE IF /\ s.isDraggingVertex
                /\ s.editingVertexIndex # -1
                /\ s.selectedObjectId # 0
        THEN IF selectedObj # Null
             THEN handleVertexUpdate(s, s.selectedObjectId,
                      ArraySet(selectedObj[1].vertices, s.editingVertexIndex,
                               snapToNearbyVertex(s.objects, coords,
                                                  s.selectedObjectId)))
             ELSE s
        ELSE IF ~s.isDrawing THEN s
        ELSE IF s.toolMode \in {"freehand", "highlighter"}
        THEN IF /\ Len(s.drawingVertices) > 0
                /\ DistSq(s.drawingVertices[Len(s.drawingVertices)], coords)
                       > MinDistance * MinDistance
             THEN [s EXCEPT !.fresh = TRUE,
                            !.drawingVertices = Append(@, coords),
                            !.ok = @ /\ Len(s.drawingVertices)
                                          <= FreehandMinPoints]
             ELSE s
        ELSE IF s.toolMode \in ShapeTools
        THEN IF Len(s.drawingVertices) > 0
             THEN [s EXCEPT !.fresh = TRUE,
                            !.drawingVertices = <<@[1], coords>>]
             ELSE s
        ELSE s

handlePointerUp(s, id) ==
    IF s.draggingImageId # 0 /\ s.transientImagePosition # Null
    THEN [updateImage(s, s.draggingImageId,
                      [position |-> s.transientImagePosition[1]])
             EXCEPT !.draggingImageId = 0, !.transientImagePosition = Null,
                    !.dragStartRef = Null, !.initialImagePosRef = Null]
    ELSE IF s.isDraggingVertex
    THEN [s EXCEPT !.isDraggingVertex = FALSE, !.editingVertexIndex = -1]
    ELSE IF /\ s.toolMode \in {"freehand", "highlighter"}
            /\ s.isDrawing
            /\ Len(s.drawingVertices) > FreehandMinPoints
    THEN [handleFreehandComplete(s, id, s.drawingVertices)
             EXCEPT !.fresh = TRUE, !.drawingVertices = <<>>,
                    !.isDrawing = FALSE]
    ELSE IF /\ s.toolMode \in ShapeTools
            /\ s.isDrawing
            /\ Len(s.drawingVertices) = 2
    THEN [handleShapeComplete(s, id, s.toolMode, s.drawingVertices)
             EXCEPT !.fresh = TRUE, !.drawingVertices = <<>>,
                    !.isDrawing = FALSE]
    ELSE s

\* a finish that commits a buffer of two vertices
finishPolygonFromTwo(s, id) ==
    LET done == IF Len(s.drawingVertices) >= PolygonMinVertices - 1
                THEN handlePolygonComplete(s, id, s.drawingVertices)
                ELSE s
    IN  [done EXCEPT !.drawingVertices = <<>>, !.isDrawing = FALSE]

finishPolygon(s, id) ==
    LET done == IF Len(s.drawingVertices) >= PolygonMinVertices
                THEN handlePolygonComplete(s, id, s.drawingVertices)
                ELSE s
    IN  [done EXCEPT !.fresh = TRUE, !.drawingVertices = <<>>,
                    !.isDrawing = FALSE]

cancelDrawing(s) ==
    [s EXCEPT !.fresh = TRUE, !.drawingVertices = <<>>,
                    !.isDrawing = FALSE]


(***************************************************************************)
(* Events.  One action per event the user or the browser delivers; the     *)
(* whole handler runs in the action.  A single pointer is assumed: while   *)
(* it is pressed on the canvas no control outside the canvas is operated.  *)
(***************************************************************************)
\* canvas coordinates the pointer visits
PA == Pt(0, 0)
PB == Pt(100, 0)
PC == Pt(0, 100)
Pts == {PA, PB, PC}

\* values typed into the calibration dialog; 0 stands for every input the
\* dialog refuses
MeterInputs == {0, 5}

\* what crypto.randomUUID() may return next
FreshIds == IF Ids \ usedIds = {} THEN {0} ELSE Ids \ usedIds

\* handlePointerMove is created again, and closes over the draggingImageId
\* of that render, when one of its useCallback dependencies changed:
\* isDrawing, toolMode, drawingVertices, isDraggingVertex,
\* editingVertexIndex, selectedObjectId, objects.  draggingImageId is not one
\* of them.
MoveDepsChanged(n) ==
    \/ n.fresh
    \/ n.isDrawing # isDrawing
    \/ n.toolMode # toolMode
    \/ n.isDraggingVertex # isDraggingVertex
    \/ n.editingVertexIndex # editingVertexIndex
    \/ n.selectedObjectId # selectedObjectId

Step(n) ==
    /\ n.ok
    /\ history' = n.history
    /\ currentIndex' = n.currentIndex
    /\ toolMode' = n.toolMode
    /\ sequenceMode' = n.sequenceMode
    /\ activeSequence' = n.activeSequence
    /\ selectedObjectId' = n.selectedObjectId
    /\ selectedImageId' = n.selectedImageId
    /\ propertiesOpen' = n.propertiesOpen
    /\ pendingCalibration' = n.pendingCalibration
    /\ calibrationDialog' = n.calibrationDialog
    /\ isSaving' = n.isSaving
    /\ activeSequenceId' = n.activeSequenceId
    /\ UNCHANGED <<seqCalls, sequences>>
    /\ objects' = n.objects
    /\ foreignObjects' = n.foreignObjects
    /\ usedIds' = n.usedIds
    /\ images' = n.images
    /\ calibration' = n.calibration
    /\ nWrites' = n.nWrites
    /\ drawingVertices' = n.drawingVertices
    /\ isDrawing' = n.isDrawing
    /\ editingVertexIndex' = n.editingVertexIndex
    /\ isDraggingVertex' = n.isDraggingVertex
    /\ draggingImageId' = n.draggingImageId
    /\ moveDraggingImageId' = IF MoveDepsChanged(n) THEN n.draggingImageId
                                                    ELSE moveDraggingImageId
    /\ transientImagePosition' = n.transientImagePosition
    /\ dragStartRef' = n.dragStartRef
    /\ initialImagePosRef' = n.initialImagePosRef
    /\ loadedImages' = n.loadedImages
    /\ newImages' = IF n.refetched THEN {} ELSE n.newImages
    /\ pointerPressed' = n.pointerPressed
    /\ storageRejects' = n.storageRejects
    /\ last' = n.last
    /\ UNCHANGED obsVars

\* the toolbar (src/components/toolbar/main-toolbar.tsx)
ToolbarModes ==
    {"select", "pan", "match", "highlighter", "eraser", "calibrate",
     "polygon", "circle", "square", "triangle", "threshold", "freehand"}

SetToolMode(modes) ==
    \E m \in modes :
        /\ ~pointerPressed
        /\ m # toolMode
        /\ Step([Begin("setToolMode", Some(m)) EXCEPT !.toolMode = m])

ToggleSequenceMode ==
    /\ ~pointerPressed
    /\ Step(toggleSequenceMode(Begin("toggleSequenceMode", Null),
                               ~sequenceMode))

PointerDown ==
    \E coords \in Pts, id \in FreshIds :
        /\ ~pointerPressed
        /\ Step([handlePointerDown(Begin("pointerDown", Some(coords)),
                                   coords, id)
                    EXCEPT !.pointerPressed = TRUE])

PointerMove ==
    \E coords \in Pts :
        /\ Step(handlePointerMove(Begin("pointerMove", Some(coords)), coords))

PointerUp ==
    \E id \in FreshIds :
        /\ pointerPressed
        /\ Step([handlePointerUp(Begin("pointerUp", Null), id)
                    EXCEPT !.pointerPressed = FALSE])

\* onPointerLeave={handlePointerUp}
PointerLeave ==
    \E id \in FreshIds :
        /\ Step([handlePointerUp(Begin("pointerLeave", Null), id)
                 EXCEPT !.pointerPressed = FALSE])

\* the Finish button, shown in polygon mode once three vertices are buffered
FinishButton ==
    \E id \in FreshIds :
        /\ ~pointerPressed
        /\ toolMode = "polygon"
        /\ Len(drawingVertices) >= PolygonMinVertices
        /\ Step(finishPolygon(Begin("finishPolygon",
                                    Some(Len(drawingVertices))), id))

\* finishPolygon and cancelDrawing called through the canvas's imperative
\* handle
FinishPolygonCall ==
    \E id \in FreshIds :
        /\ ~pointerPressed
        /\ Step(finishPolygon(Begin("finishPolygon",
                                    Some(Len(drawingVertices))), id))

CancelDrawingCall ==
    /\ ~pointerPressed
    /\ Step(cancelDrawing(Begin("cancelDrawing", Null)))

\* a row of the data table or of the journey panel is clicked
SelectFromList ==
    \E i \in 1..Len(objects) :
        /\ ~pointerPressed
        /\ Step(handleSelectObject(Begin("selectObject", Some(objects[i].id)),
                                   objects[i].id))

\* the properties drawer shows the selected object while propertiesOpen
DrawerShown ==
    /\ ~pointerPressed
    /\ propertiesOpen
    /\ Find(objects, selectedObjectId) # Null

DrawerUpdate ==
    /\ DrawerShown
    /\ Step(handleUpdateObject(Begin("updateObject", Null),
                               [style |-> "custom"]))

DrawerDelete ==
    /\ DrawerShown
    /\ Step(handleDeleteObject(Begin("deleteObject", Null)))

DrawerEditVertices ==
    /\ DrawerShown
    /\ Step(handleEditVertices(Begin("editVertices", Null)))

DrawerClose ==
    /\ ~pointerPressed
    /\ propertiesOpen
    /\ Step([Begin("closeProperties", Null) EXCEPT !.propertiesOpen = FALSE])

\* the image drawer, open while an image is selected, is dismissed
ImageDrawerClose ==
    /\ ~pointerPressed
    /\ selectedImageId # 0
    /\ Step([Begin("closeImageDrawer", Null) EXCEPT !.selectedImageId = 0])

Undo ==
    /\ ~pointerPressed
    /\ Step(handleUndo(Begin("undo", Null)))

Redo ==
    /\ ~pointerPressed
    /\ Step(handleRedo(Begin("redo", Null)))

\* the calibration dialog (src/components/dialogs/calibration-dialog.tsx)
DialogConfirm ==
    \E value \in MeterInputs :
        /\ ~pointerPressed
        /\ calibrationDialog
        /\ Step(IF value > 0
                THEN [confirmCalibration(
                          Begin("confirmCalibration", Some(value)), value)
                         EXCEPT !.calibrationDialog = FALSE]
                ELSE Begin("confirmCalibration", Some(value)))

DialogCancel ==
    /\ ~pointerPressed
    /\ calibrationDialog
    /\ Step([Begin("cancelCalibration", Null)
                EXCEPT !.calibrationDialog = FALSE])

\* the image-loading effect: every bitmap of project.images is decoded
ImagesLoaded ==
    /\ ~pointerPressed
    /\ Len(images) > 0
    /\ Step([Begin("imagesLoaded", Null) EXCEPT
                !.loadedImages = @ \cup {images[i].id : i \in 1..Len(images)}])

(***************************************************************************)
(* Specifications.  Each one is a way of using the application: the same   *)
(* handlers, driven by the controls that use involves.                     *)
(***************************************************************************)
\* drawing polygons and lines, with journey recording switched on and off
NextDraw ==
    \/ SetToolMode({"select", "polygon", "threshold"})
    \/ ToggleSequenceMode
    \/ PointerDown
    \/ PointerUp
    \/ FinishButton
    \/ FinishPolygonCall
    \/ CancelDrawingCall
    \/ Undo
    \/ Redo
    \/ DrawerClose

SpecDraw == Init /\ [][NextDraw]_vars

\* calibrating the scale
NextCalibrate ==
    \/ SetToolMode({"select", "polygon", "calibrate"})
    \/ ToggleSequenceMode
    \/ PointerDown
    \/ PointerUp
    \/ CancelDrawingCall
    \/ DialogConfirm
    \/ DialogCancel

SpecCalibrate == Init /\ [][NextCalibrate]_vars

\* a stored project is opened: a triangle, a line and an unlocked image
StoredPolygon == MapObject(8, "polygon", <<PA, PB, PC>>, "polygon")
StoredLine == MapObject(9, "threshold", <<PA, PB>>, "threshold")
StoredImage == [id |-> 1, position |-> PA, locked |-> FALSE, visible |-> TRUE]

InitDbStored ==
    /\ objects = <<StoredPolygon, StoredLine>>
    /\ foreignObjects = <<>>
    /\ sequences = <<>>
    /\ usedIds = {}
    /\ images = <<StoredImage>>
    /\ calibration = Null
    /\ nWrites = 0

InitEdit == InitUndo /\ InitPage /\ InitCanvas /\ InitEnv /\ InitDbStored

\* editing what the project holds
NextEdit ==
    \/ SetToolMode({"select", "match"})
    \/ ImagesLoaded
    \/ PointerDown
    \/ PointerMove
    \/ PointerUp
    \/ SelectFromList
    \/ DrawerUpdate
    \/ DrawerDelete
    \/ DrawerEditVertices
    \/ DrawerClose
    \/ ImageDrawerClose
    \/ Undo
    \/ Redo

SpecEdit == InitEdit /\ [][NextEdit]_vars


(***************************************************************************)
(* Properties of the page and the canvas.                                  *)
(***************************************************************************)
\* C5: every handler run that commits a mutation of the objects table (a
\* create, an update of name/style/metadata including a style paste, a
\* delete, a vertex edit) makes one pushState call.
C5_PushPerCommittedMutation ==
    last.writes > 0 => last.pushes = 1


ArityOk(o) ==
    IF o.type = "polygon" THEN Len(o.vertices) >= 3
    ELSE IF o.type = "freehand" THEN Len(o.vertices) >= 2
    ELSE Len(o.vertices) = 2

\* C6: in every reachable state every stored object has the vertex count of
\* its type: a polygon at least 3, a threshold exactly 2, a freehand at
\* least 2, a circle, square or triangle exactly 2.
C6_ArityContract ==
    \A i \in 1..Len(objects) : ArityOk(objects[i])


LineTools == {"threshold", "calibrate"}

\* the step is a run of handlePointerDown at point c
PointerDownAt(c) == last'.op = "pointerDown" /\ last'.arg = Some(c)

\* the step commits exactly one polygon with the buffered vertices
CommitsPolygon ==
    /\ selectedObjectId' \notin {objects[i].id : i \in 1..Len(objects)}
    /\ objects' = InsertById(objects,
                      MapObject(selectedObjectId', "polygon", drawingVertices,
                                getDefaultStyle("polygon")))

FinishCommits ==
    (last'.op = "finishPolygon" /\ Len(drawingVertices) >= 3) =>
        /\ CommitsPolygon
        /\ drawingVertices' = <<>>
        /\ toolMode' = "select"

\* C7 as stated: in polygon mode each pointer-down appends exactly one
\* vertex to the buffer; a finish with n >= 3 buffered vertices commits
\* exactly one polygon whose vertices are the buffered points in click
\* order, empties the buffer and returns the tool to select.
C7_PolygonAppendAndFinish ==
    [][/\ \A c \in Pts :
             (toolMode = "polygon" /\ PointerDownAt(c)) =>
                 drawingVertices' = Append(drawingVertices, c)
       /\ FinishCommits]_vars

\* C7, amended: the same while journey recording is off; while it is on a
\* pointer-down in polygon mode is the journey's hit test and appends
\* nothing.
C7_PolygonAppendUnlessRecording ==
    [][/\ \A c \in Pts :
             (toolMode = "polygon" /\ PointerDownAt(c)) =>
                 IF sequenceMode
                 THEN drawingVertices' = drawingVertices
                 ELSE drawingVertices' = Append(drawingVertices, c)
       /\ FinishCommits]_vars

\* a triangle was clicked and finished while recording was off
C7_Witness ==
    /\ last.op = "finishPolygon" /\ last.arg = Some(3)
    /\ ~sequenceMode
    /\ toolMode = "select"
    /\ drawingVertices = <<>>
    /\ objects = <<MapObject(selectedObjectId, "polygon", <<PA, PB, PC>>,
                             "polygon")>>

\* C8: a finish with fewer than 3 buffered vertices creates no object,
\* leaves the objects and the history as they were, clears the buffer and
\* leaves the tool mode as it was.
C8_FinishBelowThree ==
    [][(last'.op = "finishPolygon" /\ Len(drawingVertices) < 3) =>
          /\ objects' = objects
          /\ history' = history /\ currentIndex' = currentIndex
          /\ drawingVertices' = <<>> /\ ~isDrawing'
          /\ toolMode' = toolMode]_vars

\* finish was called in polygon mode with two buffered vertices
C8_Witness ==
    /\ last.op = "finishPolygon" /\ last.arg = Some(2)
    /\ toolMode = "polygon"
    /\ drawingVertices = <<>>
    /\ objects = <<>> /\ history = <<>>

\* C9, with journey recording off: the first pointer-down after the
\* threshold or the calibrate tool was chosen, at a, makes a the only
\* buffered point; a pointer-down at b with a buffered completes with
\* start = a and end = b (a threshold object in threshold mode, a pending
\* calibration with the distance from a to b in calibrate mode) and leaves
\* the buffer empty.
C9_TwoClickLine ==
    [][\A c \in Pts :
          (toolMode \in LineTools /\ ~sequenceMode /\ PointerDownAt(c)) =>
              /\ last.op = "setToolMode" => drawingVertices' = <<c>>
              /\ (last.op # "setToolMode" /\ Len(drawingVertices) = 1) =>
                    /\ drawingVertices' = <<>>
                    /\ toolMode = "threshold" =>
                          \E o \in {objects'[i] : i \in 1..Len(objects')} :
                              /\ o.id = selectedObjectId'
                              /\ o.type = "threshold"
                              /\ o.vertices = <<drawingVertices[1], c>>
                    /\ toolMode = "calibrate" =>
                          pendingCalibration' =
                              Some([start |-> drawingVertices[1], end |-> c,
                                    pixelDistanceSq |->
                                        DistSq(drawingVertices[1], c)])]_vars

CalibrationConsistent(cal) ==
    cal # Null =>
        cal[1].ratioSq.num = DistSq(cal[1].calibrationPoints.start,
                                    cal[1].calibrationPoints.end)

\* C10: the stored calibration changes only in a confirmation of a pending
\* calibration with a positive length m; the points and the ratio are then
\* both replaced, by the pending points and by pixelDistance / m; the ratio
\* stored is always the one of the points stored.
C10_CalibrationOnlyOnConfirm ==
    [][/\ calibration' # calibration =>
             /\ last'.op = "confirmCalibration"
             /\ last'.arg[1] > 0
             /\ pendingCalibration # Null
             /\ calibration' =
                    Some([calibrationPoints |->
                              [start |-> pendingCalibration[1].start,
                               end |-> pendingCalibration[1].end],
                          ratioSq |->
                              [num |-> pendingCalibration[1].pixelDistanceSq,
                               den |-> last'.arg[1] * last'.arg[1]]])
       /\ last'.op \in {"cancelCalibration", "pointerDown"} =>
             calibration' = calibration
       /\ CalibrationConsistent(calibration')]_vars

\* a calibration is stored, a second one was measured between other points
\* and its dialog was cancelled
C10_Witness ==
    /\ last.op = "cancelCalibration"
    /\ calibration # Null
    /\ pendingCalibration # Null
    /\ pendingCalibration[1].start # calibration[1].calibrationPoints.start
    /\ ~calibrationDialog


(***************************************************************************)
(* Measurement (getPolygonArea of src/lib/canvas-utils.ts).  An area in    *)
(* square metres is a fraction [num, den] of integers; rounding of the     *)
(* floating-point quotient is not modelled.                                *)
(***************************************************************************)
Abs(a) == IF a < 0 THEN -a ELSE a

Frac(n, d) == [num |-> n, den |-> d]

FracEq(a, b) == a.num * b.den = b.num * a.den

\* "currentProject?.pixelToMeterRatio || null", squared: a ratio of 0 is
\* passed on as null
pixelToMeterRatioSq(cal) ==
    IF cal = Null \/ cal[1].ratioSq.num = 0 THEN Null
    ELSE Some(cal[1].ratioSq)

\* the value of area after the first i rounds of getPolygonArea's loop
RECURSIVE ShoelaceSum(_, _)
ShoelaceSum(vertices, i) ==
    IF i = 0 THEN 0
    ELSE LET j == (i % Len(vertices)) + 1
         IN  ShoelaceSum(vertices, i - 1)
                 + vertices[i].x * vertices[j].y
                 - vertices[j].x * vertices[i].y

\* a getPolygonArea that divides by nothing: the area in square pixels
getPolygonAreaInPixels(vertices, ratioSq) ==
    IF Len(vertices) < 3 \/ ratioSq = Null THEN Frac(0, 1)
    ELSE Frac(Abs(ShoelaceSum(vertices, Len(vertices))), 2)

\* getPolygonArea; ratioSq is pixelToMeterRatio * pixelToMeterRatio
getPolygonArea(vertices, ratioSq) ==
    IF Len(vertices) < 3 \/ ratioSq = Null THEN Frac(0, 1)
    ELSE Frac(Abs(ShoelaceSum(vertices, Len(vertices))) * ratioSq[1].den,
              2 * ratioSq[1].num)

\* getMeasurement of the data table, for a polygon
getMeasurement(obj, cal) ==
    IF obj.type = "polygon" /\ Len(obj.vertices) > 2
    THEN Some(getPolygonArea(obj.vertices, pixelToMeterRatioSq(cal)))
    ELSE Null

\* a stored project holding a square of 20 by 20 pixels away from the
\* points the pointer visits
SquareRing == <<Pt(200, 200), Pt(220, 200), Pt(220, 220), Pt(200, 220)>>
StoredSquare == MapObject(7, "polygon", SquareRing, "polygon")

InitDbSquare ==
    /\ objects = <<StoredSquare>>
    /\ foreignObjects = <<>>
    /\ sequences = <<>>
    /\ usedIds = {}
    /\ images = <<>>
    /\ calibration = Null
    /\ nWrites = 0

InitMeasure == InitUndo /\ InitPage /\ InitCanvas /\ InitEnv /\ InitDbSquare

\* calibrating the scale of a project that holds a polygon
NextMeasure ==
    \/ SetToolMode({"select", "calibrate"})
    \/ PointerDown
    \/ PointerUp
    \/ CancelDrawingCall
    \/ DialogConfirm
    \/ DialogCancel
    \/ SelectFromList
    \/ DrawerClose

SpecMeasure == InitMeasure /\ [][NextMeasure]_vars

\* rings getPolygonArea is applied to: empty, a segment, a triangle in both
\* orientations, the square
Rings ==
    {<<>>, <<PA, PB>>, <<Pt(0, 0), Pt(4, 0), Pt(0, 6)>>,
     <<Pt(0, 0), Pt(0, 6), Pt(4, 0)>>, SquareRing}

\* the ring's area in square pixels, as half the given number
DoubledPixelArea(ring) ==
    IF ring = SquareRing THEN 800
    ELSE IF Len(ring) = 3 THEN 24
    ELSE 0

\* C11: confirming the calibration line from (0,0) to (100,0) as 5 metres
\* stores pixelToMeterRatio = 20, and the 20 by 20 pixel square then
\* measures 1 square metre; for every ring and every stored ratio r > 0
\* getPolygonArea is the shoelace area in pixels divided by r * r, and it is
\* 0 for a ring of fewer than 3 vertices or when no calibration is set.
C11_CalibratedArea ==
    [][/\ (/\ pendingCalibration # Null
           /\ pendingCalibration[1].start = PA
           /\ pendingCalibration[1].end = PB
           /\ last'.op = "confirmCalibration"
           /\ last'.arg = Some(5)) =>
              /\ calibration' # Null
              /\ FracEq(calibration'[1].ratioSq, Frac(20 * 20, 1))
              /\ \A i \in 1..Len(objects') :
                    objects'[i].vertices = SquareRing =>
                        /\ getMeasurement(objects'[i], calibration') # Null
                        /\ FracEq(getMeasurement(objects'[i],
                                                 calibration')[1],
                                  Frac(1, 1))
       /\ \A ring \in Rings :
             LET r == pixelToMeterRatioSq(calibration')
                 area == getPolygonArea(ring, r)
             IN  IF Len(ring) < 3 \/ calibration' = Null
                 THEN area.num = 0
                 ELSE r # Null =>
                         FracEq(area, Frac(DoubledPixelArea(ring) * r[1].den,
                                           2 * r[1].num))]_vars

\* the line from (0,0) to (100,0) was confirmed as 5 metres and the stored
\* square measures 1 square metre
C11_Witness ==
    /\ last.op = "confirmCalibration" /\ last.arg = Some(5)
    /\ calibration # Null
    /\ calibration[1].calibrationPoints = [start |-> PA, end |-> PB]
    /\ calibration[1].ratioSq = Frac(10000, 25)
    /\ Len(objects) = 1
    /\ getMeasurement(objects[1], calibration) = Some(Frac(800 * 25, 20000))


(***************************************************************************)
(* Freehand and highlighter strokes.                                       *)
(***************************************************************************)
\* canvas coordinates the pointer moves over during a stroke
StrokePts == {PA, PB}

PointerMoveStroke ==
    \E coords \in StrokePts :
        /\ Step(handlePointerMove(Begin("pointerMove", Some(coords)), coords))

\* a stored project holding one unlocked image and no object
InitDbImage ==
    /\ objects = <<>>
    /\ foreignObjects = <<>>
    /\ sequences = <<>>
    /\ usedIds = {}
    /\ images = <<StoredImage>>
    /\ calibration = Null
    /\ nWrites = 0

InitStroke == InitUndo /\ InitPage /\ InitCanvas /\ InitEnv /\ InitDbImage

\* strokes with the freehand tool over a background image, with journey
\* recording switched on and off
NextStroke ==
    \/ SetToolMode({"select", "freehand"})
    \/ ToggleSequenceMode
    \/ ImagesLoaded
    \/ PointerDown
    \/ PointerMoveStroke
    \/ PointerUp

SpecStroke == InitStroke /\ [][NextStroke]_vars

StrokeTools == {"freehand", "highlighter"}

\* the step is a run of handlePointerMove at point c
PointerMoveAt(c) == last'.op = "pointerMove" /\ last'.arg = Some(c)

\* C12, with journey recording off: in freehand or highlighter mode a
\* pointer-down at c makes c the only buffered point, and each pointer-move
\* that follows appends its point if it is farther than the smoothing
\* threshold from the last buffered point and appends nothing otherwise, so
\* that k such moves leave k + 1 points in order.
C12_StrokeBuffer ==
    [][/\ \A c \in Pts :
             (toolMode \in StrokeTools /\ ~sequenceMode /\ PointerDownAt(c))
                 => drawingVertices' = <<c>>
       /\ \A c \in StrokePts :
             (/\ toolMode \in StrokeTools /\ ~sequenceMode
              /\ pointerPressed /\ PointerMoveAt(c)) =>
                 /\ Len(drawingVertices) >= 1
                 /\ drawingVertices' =
                        IF DistSq(drawingVertices[Len(drawingVertices)], c)
                               > MinDistance * MinDistance
                        THEN Append(drawingVertices, c)
                        ELSE drawingVertices]_vars

\* the step commits exactly one freehand object with the buffered points
CommitsFreehand ==
    \E id \in Ids :
        /\ id \notin {objects[i].id : i \in 1..Len(objects)}
        /\ objects' = InsertById(objects,
                          MapObject(id, "freehand", drawingVertices,
                                    getDefaultStyle(toolMode)))

\* C13: in freehand or highlighter mode a pointer-up commits a freehand
\* object, made of the buffered points, if and only if more than 5 points
\* are buffered; with 5 or fewer it leaves the objects and the history as
\* they were.
C13_CommitIffMoreThanFive ==
    [][(toolMode \in StrokeTools /\ last'.op = "pointerUp") =>
          IF Len(drawingVertices) > 5
          THEN CommitsFreehand
          ELSE /\ objects' = objects
               /\ history' = history /\ currentIndex' = currentIndex]_vars

\* C14: in freehand or highlighter mode a pointer-up with 5 or fewer
\* buffered points leaves the buffer empty and no drawing in progress, and
\* a pointer-move while the pointer is not pressed appends nothing.
C14_ShortStrokeDiscarded ==
    [][/\ (/\ toolMode \in StrokeTools
           /\ last'.op = "pointerUp"
           /\ Len(drawingVertices) <= 5) =>
              (drawingVertices' = <<>> /\ ~isDrawing')
       /\ (/\ toolMode \in StrokeTools
           /\ ~pointerPressed
           /\ last'.op = "pointerMove") =>
              drawingVertices' = drawingVertices]_vars

(***************************************************************************)
(* Editing vertices, erasing, matching styles, selecting.                  *)
(***************************************************************************)
\* the vertices of objects other than id that are nearer to c than the snap
\* threshold
NearOtherVertices(objs, c, id) ==
    {objs[i].vertices[j] :
        <<i, j>> \in {ij \in (1..Len(objs)) \X (1..4) :
                         /\ ij[2] <= Len(objs[ij[1]].vertices)
                         /\ objs[ij[1]].id # id
                         /\ DistSq(c, objs[ij[1]].vertices[ij[2]])
                                < SNAP_THRESHOLD * SNAP_THRESHOLD}}

\* C15: a pointer-move at c while a vertex of the selected object is being
\* dragged in edit-vertices mode stores, for that vertex, a vertex of
\* another object that is within the snap threshold of c if there is one,
\* and c itself otherwise.
C15_VertexSnap ==
    [][\A c \in Pts :
          (/\ toolMode = "editVertices"
           /\ isDraggingVertex /\ pointerPressed
           /\ Find(objects, selectedObjectId) # Null
           /\ editingVertexIndex >= 0
           /\ editingVertexIndex
                  < Len(Find(objects, selectedObjectId)[1].vertices)
           /\ PointerMoveAt(c)) =>
              LET near == NearOtherVertices(objects, c, selectedObjectId)
                  after == Find(objects', selectedObjectId)
              IN  /\ after # Null
                  /\ Len(after[1].vertices) > editingVertexIndex
                  /\ IF near # {}
                     THEN after[1].vertices[editingVertexIndex + 1] \in near
                     ELSE after[1].vertices[editingVertexIndex + 1] = c]_vars


\* erasing, matching styles and selecting in a stored project to which a
\* line can be added, with journey recording switched on and off
NextErase ==
    \/ SetToolMode({"select", "eraser", "match", "threshold"})
    \/ ToggleSequenceMode
    \/ ImagesLoaded
    \/ PointerDown
    \/ PointerUp
    \/ SelectFromList
    \/ DrawerClose

SpecErase == InitEdit /\ [][NextErase]_vars

\* the indices of the objects whose hit test passes at c
Hits(c) == {i \in 1..Len(objects) : hitTestObject(c, objects[i])}

\* the object inserted last among those at the indices in hits: an object
\* created since the project was opened is newer than every stored one, and
\* the stored ones were inserted in the order of their ids
LastInserted(hits) ==
    IF \E i \in hits : objects[i].id \in usedIds
    THEN CHOOSE i \in hits : objects[i].id \in usedIds
    ELSE CHOOSE i \in hits : \A j \in hits : objects[j].id <= objects[i].id

\* C16, with journey recording off: an eraser pointer-down at c deletes the
\* last-inserted object whose hit test passes at c and no other object,
\* clearing the selection if that object was selected; if no hit test
\* passes it deletes nothing.
C16_EraserDeletesTopmost ==
    [][\A c \in Pts :
          (toolMode = "eraser" /\ ~sequenceMode /\ PointerDownAt(c)) =>
              IF Hits(c) = {}
              THEN objects' = objects
              ELSE LET id == objects[LastInserted(Hits(c))].id
                   IN  /\ objects' = RemoveById(objects, id)
                       /\ selectedObjectId = id => selectedObjectId' = 0]_vars


\* the step gives the selected object the style of an object whose hit test
\* passes at c, changes nothing else in the objects, and returns the tool to
\* select
PastesStyle(c) ==
    /\ \E i \in Hits(c) :
          objects' = [k \in 1..Len(objects) |->
                         IF objects[k].id = selectedObjectId
                         THEN [objects[k] EXCEPT !.style = objects[i].style]
                         ELSE objects[k]]
    /\ toolMode' = "select"

\* C17 as stated: in style-match mode, with an object selected, a
\* pointer-down that hits an object copies that object's style onto the
\* selected object, leaving its vertices and every other object as they
\* were, and the tool returns to select.
C17_MatchCopiesStyle ==
    [][\A c \in Pts :
          (/\ toolMode = "match"
           /\ Find(objects, selectedObjectId) # Null
           /\ Hits(c) # {}
           /\ PointerDownAt(c)) => PastesStyle(c)]_vars

\* C17, amended: the same while journey recording is off; while it is on a
\* pointer-down in style-match mode is the journey's hit test and changes
\* neither the objects nor the tool.
C17_MatchCopiesStyleUnlessRecording ==
    [][\A c \in Pts :
          (/\ toolMode = "match"
           /\ Find(objects, selectedObjectId) # Null
           /\ Hits(c) # {}
           /\ PointerDownAt(c)) =>
              IF sequenceMode
              THEN objects' = objects /\ toolMode' = toolMode
              ELSE PastesStyle(c)]_vars

\* the stored polygon was selected and the stored line clicked with the
\* style-match tool
C17_Witness ==
    /\ last.op = "pointerDown" /\ last.arg = Some(PA)
    /\ last.writes = 1
    /\ ~sequenceMode
    /\ toolMode = "select"
    /\ selectedObjectId = StoredPolygon.id
    /\ objects = <<[StoredPolygon EXCEPT !.style = StoredLine.style],
                   StoredLine>>


\* C18, with journey recording off: a pointer-down at c in select mode
\* selects the last-inserted object whose hit test passes at c and opens
\* the properties, without testing the images; if no object is hit it
\* selects the topmost visible image under c and clears the object
\* selection; if nothing is hit it clears the object selection.
C18_SelectTopmost ==
    [][\A c \in Pts :
          (toolMode = "select" /\ ~sequenceMode /\ PointerDownAt(c)) =>
              IF Hits(c) # {}
              THEN /\ selectedObjectId' = objects[LastInserted(Hits(c))].id
                   /\ propertiesOpen'
                   /\ selectedImageId' = selectedImageId
                   /\ draggingImageId' = draggingImageId
              ELSE IF TopImageHit(AppState, c) # 0
              THEN /\ selectedImageId' = images[TopImageHit(AppState, c)].id
                   /\ selectedObjectId' = 0
              ELSE selectedObjectId' = 0]_vars


\* the active journey's objectIds, empty before the journey is created
Journey == IF activeSequence = Null THEN <<>> ELSE activeSequence[1]

\* the step appends an object whose hit test passes at c to the journey and
\* leaves the selection as it was
AppendsHitToJourney(c) ==
    /\ \E i \in Hits(c) :
          activeSequence' = Some(Append(Journey, objects[i].id))
    /\ selectedObjectId' = selectedObjectId

\* C19 as stated: while recording, a pointer-down that hits an object
\* appends its id to the end of the journey and leaves the selection as it
\* was when the tool is select, and the other tools act as they do without
\* recording: the eraser deletes a hit object, style-match returns the tool
\* to select after a hit with an object selected, the line tool buffers the
\* first click.
C19_RecordingRedirectsSelect ==
    [][\A c \in Pts :
          (sequenceMode /\ PointerDownAt(c)) =>
              /\ (toolMode = "select" /\ Hits(c) # {}) =>
                    AppendsHitToJourney(c)
              /\ (toolMode = "eraser" /\ Hits(c) # {}) =>
                    Len(objects') = Len(objects) - 1
              /\ (/\ toolMode = "match" /\ Hits(c) # {}
                  /\ Find(objects, selectedObjectId) # Null) =>
                    toolMode' = "select"
              /\ (toolMode = "threshold" /\ drawingVertices = <<>>) =>
                    drawingVertices' = <<c>>]_vars

\* C19, amended: while recording, under every tool but pan and
\* edit-vertices, a pointer-down is the journey's hit test: it changes
\* neither the objects, the buffer nor the tool; on a hit it appends the
\* object's id to the end of the journey and leaves the selection as it
\* was; on a miss it leaves the journey as it was and clears the object
\* selection.
C19_RecordingRedirectsEveryTool ==
    [][\A c \in Pts :
          (/\ sequenceMode
           /\ toolMode \notin {"pan", "editVertices"}
           /\ PointerDownAt(c)) =>
              /\ objects' = objects
              /\ drawingVertices' = drawingVertices
              /\ toolMode' = toolMode
              /\ IF Hits(c) # {}
                 THEN AppendsHitToJourney(c)
                 ELSE /\ activeSequence' = activeSequence
                      /\ selectedObjectId' = 0]_vars

\* while recording with the eraser chosen, two different objects were
\* clicked one after the other; both are still stored
C19_Witness ==
    /\ last.op = "pointerDown"
    /\ sequenceMode
    /\ toolMode = "eraser"
    /\ Len(Journey) = 2
    /\ Journey[1] # Journey[2]
    /\ \A k \in 1..2 : Find(objects, Journey[k]) # Null


\* C20: choosing another tool in the toolbar leaves the buffer empty and no
\* drawing in progress, and the first pointer-down after the tool was
\* chosen commits no object.
C20_ToolSwitchClearsBuffer ==
    [][/\ last'.op = "setToolMode" =>
             (drawingVertices' = <<>> /\ ~isDrawing')
       /\ (last.op = "setToolMode" /\ last'.op = "pointerDown") =>
             objects' = objects]_vars

(***************************************************************************)
(* isPointInPolygon on coordinates that are not whole pixels.              *)
(* getCanvasCoords divides by the viewport scale, so a pointer position is *)
(* any double.  A double keeps 53 significant bits and every operator      *)
(* rounds its exact result to the nearest double, ties to even; the model  *)
(* keeps MantissaBits significant bits and rounds the same way.  A number  *)
(* is an integer count of units of 2^-FracBits.  On whole-pixel            *)
(* coordinates the products are exact and the rounded quotient lies on the *)
(* same side of every integer as the exact one, which is what EdgeCrossed  *)
(* computes.                                                               *)
(***************************************************************************)
\* significant bits of a number (53 in a double), scaled down
MantissaBits == 4

FracBits == MantissaBits + 1

Unit == 2 ^ FracBits

\* the exponent of a / b >= 1: the e with 2^e <= a / b < 2^(e + 1)
Exponent(a, b) ==
    CHOOSE e \in 0..20 : 2 ^ e * b <= a /\ a < 2 ^ (e + 1) * b

\* n / d rounded to MantissaBits significant bits, ties to even
RoundQ(n, d) ==
    LET a == Abs(n)
        b == Abs(d)
        sign == IF (n < 0) # (d < 0) THEN -1 ELSE 1
        e == IF a < b THEN 0 ELSE Exponent(a, b)
        ulp == 2 ^ Max(0, e - MantissaBits + 1)
        m == a \div (b * ulp)
        r == a - m * b * ulp
        up == 2 * r > b * ulp \/ (2 * r = b * ulp /\ m % 2 = 1)
    IN  sign * (IF up THEN m + 1 ELSE m) * ulp

FlAdd(a, b) == RoundQ(a + b, 1)

FlSub(a, b) == RoundQ(a - b, 1)

FlMul(a, b) == RoundQ(a * b, Unit)

FlDiv(a, b) == RoundQ(a * Unit, b)

\* the test of one edge (i, j), operator by operator
EdgeCrossedFloat(point, vi, vj) ==
    /\ (vi.y > point.y) # (vj.y > point.y)
    /\ point.x < FlAdd(FlDiv(FlMul(FlSub(vj.x, vi.x), FlSub(point.y, vi.y)),
                             FlSub(vj.y, vi.y)),
                       vi.x)

isPointInPolygonFloat(point, vertices) ==
    LET n == Len(vertices)
        prevIdx(i) == IF i = 1 THEN n ELSE i - 1
        crossed == {i \in 1..n :
                       EdgeCrossedFloat(point, vertices[i],
                                        vertices[prevIdx(i)])}
    IN  Cardinality(crossed) % 2 = 1

\* probes: ring vertices on whole pixels, points between them
ProbeVertices ==
    {Pt(0, 0), Pt(Unit, 3 * Unit), Pt(Unit, 0), Pt(0, 3 * Unit)}

ProbeRings ==
    {<<>>} \cup {<<v>> : v \in ProbeVertices}
           \cup {<<v, w>> : v \in ProbeVertices, w \in ProbeVertices}

ProbePoints ==
    {Pt(x, y) : x \in {k \in 0..Unit : RoundQ(k, 1) = k},
                y \in {Unit, 2 * Unit}}

HitProbe ==
    \E point \in ProbePoints, ring \in ProbeRings :
        /\ last' = [op |-> "isPointInPolygon",
                    arg |-> [point |-> point, ring |-> ring,
                             inside |-> isPointInPolygonFloat(point, ring)],
                    pushes |-> 0, writes |-> 0, rejected |-> FALSE,
                    before |-> Null]
        /\ UNCHANGED <<undoVars, obsVars, pageVars, dbVars, canvasVars,
                       pointerPressed, storageRejects>>

NextRing == HitProbe

SpecRing == Init /\ [][NextRing]_vars

\* C21: isPointInPolygon(point, ring) is false for every point when ring
\* has 0, 1 or 2 vertices.
C21_DegenerateRingOutside ==
    (last.op = "isPointInPolygon" /\ Len(last.arg.ring) < 3)
        => ~last.arg.inside

\* the part of C21 that does hold: rings of 0 and 1 vertices
C21_EmptyOrSingleOutside ==
    (last.op = "isPointInPolygon" /\ Len(last.arg.ring) < 2)
        => ~last.arg.inside


(***************************************************************************)
(* Loading the background images (the effect on project.images of          *)
(* MapCanvas).  Each image gets an onload callback and nothing else: a     *)
(* source that does not decode never calls back.                           *)
(***************************************************************************)
\* a second layer, whose source does not decode
BrokenImage == [id |-> 2, position |-> PB, locked |-> FALSE, visible |-> TRUE]

\* ids of the images whose load never completes
Undecodable == {BrokenImage.id}

\* img.onload of one image of the running effect
ImageOnload ==
    \E i \in 1..Len(images) :
        /\ images[i].id \notin Undecodable
        /\ images[i].id \notin newImages
        /\ LET decoded == newImages \cup {images[i].id}
           IN  Step([Begin("imageOnload", Some(images[i].id)) EXCEPT
                        !.newImages = decoded,
                        !.loadedImages =
                            IF Cardinality(decoded) = Len(images)
                            THEN @ \cup decoded ELSE @])

\* a stored project with a line and two layers, one of them broken
InitDbGallery ==
    /\ objects = <<StoredLine>>
    /\ foreignObjects = <<>>
    /\ sequences = <<>>
    /\ usedIds = {}
    /\ images = <<StoredImage, BrokenImage>>
    /\ calibration = Null
    /\ nWrites = 0

InitGallery == InitUndo /\ InitPage /\ InitCanvas /\ InitEnv /\ InitDbGallery

NextGallery ==
    \/ SetToolMode({"select", "pan"})
    \/ ImageOnload
    \/ PointerDown
    \/ PointerMove
    \/ PointerUp
    \/ SelectFromList
    \/ DrawerClose

SpecGallery == InitGallery /\ [][NextGallery]_vars

\* the images of the project that can be decoded
Decodable == {images[i].id : i \in 1..Len(images)} \ Undecodable

\* C22: when one image never finishes loading, every image whose decode
\* succeeded is still in the decoded-image cache (and so rendered and
\* hit-tested).
C22_DecodedImagesCached ==
    (Decodable # {} /\ newImages = Decodable) => Decodable \subseteq loadedImages

\* the part of C22 that holds: pointer handling goes on, a pointer-down in
\* select mode on the stored line still selects it
C22_PointerHandlingWorks ==
    [][(last'.op = "pointerDown" /\ toolMode = "select"
        /\ last'.arg = Some(PB))
          => selectedObjectId' = StoredLine.id]_vars


(***************************************************************************)
(* Storage failures.  The objects table (IndexedDB through Dexie) may      *)
(* reject a request: quota exceeded, the database closed or blocked.       *)
(***************************************************************************)
StorageFails ==
    /\ ~pointerPressed
    /\ ~storageRejects
    /\ Step([Begin("storageFails", Null) EXCEPT !.storageRejects = TRUE])

StorageRecovers ==
    /\ ~pointerPressed
    /\ storageRejects
    /\ Step([Begin("storageRecovers", Null) EXCEPT !.storageRejects = FALSE])

\* a project with one stored line
InitDbLine ==
    /\ objects = <<StoredLine>>
    /\ foreignObjects = <<>>
    /\ sequences = <<>>
    /\ usedIds = {}
    /\ images = <<>>
    /\ calibration = Null
    /\ nWrites = 0

InitOutage == InitUndo /\ InitPage /\ InitCanvas /\ InitEnv /\ InitDbLine

\* drawing and editing while the storage comes and goes
NextOutage ==
    \/ StorageFails
    \/ StorageRecovers
    \/ SetToolMode({"select", "threshold"})
    \/ PointerDown
    \/ PointerUp
    \/ SelectFromList
    \/ DrawerUpdate
    \/ DrawerDelete
    \/ DrawerClose

SpecOutage == InitOutage /\ [][NextOutage]_vars

\* C23: a commit handler whose write is rejected leaves the shape
\* collection as it was, ends with the saving flag cleared and records no
\* history snapshot.
C23_RejectedWriteLeavesSessionUsable ==
    [][last'.rejected => (/\ objects' = objects
                          /\ ~isSaving'
                          /\ last'.pushes = 0)]_vars

\* the part of C23 that holds: the stored shapes and the selection are as
\* they were before the rejected write
C23_RejectedWriteKeepsObjects ==
    [][last'.rejected => (/\ objects' = objects
                          /\ selectedObjectId' = selectedObjectId)]_vars


(***************************************************************************)
(* pushState called more than once by callbacks of one render.  Each call  *)
(* queues its two updaters; React applies the queued updaters in order at  *)
(* the next render.  Every one of these calls closed over the same         *)
(* currentIndex, the one of the render that created the callback.          *)
(***************************************************************************)
\* calls one render's callbacks make before the next render, at most
MaxBatch == 2

\* the history updaters of pushState(snaps[1]), pushState(snaps[2]), ...
\* applied in order, every one with the captured index idx
RECURSIVE pushStateHistoryAll(_, _, _)
pushStateHistoryAll(prev, idx, snaps) ==
    IF snaps = <<>> THEN prev
    ELSE pushStateHistoryAll(pushStateHistory(prev, idx, Head(snaps)), idx,
                             Tail(snaps))

\* the index updater applied k times
RECURSIVE pushStateIndexAll(_, _)
pushStateIndexAll(prev, k) ==
    IF k = 0 THEN prev ELSE pushStateIndexAll(pushStateIndex(prev), k - 1)

SnapBatches ==
    UNION {[1..k -> SnapInputs] : k \in 1..MaxBatch}

PushStateBatch ==
    \E snaps \in SnapBatches :
        /\ history' = pushStateHistoryAll(history, currentIndex, snaps)
        /\ currentIndex' = pushStateIndexAll(currentIndex, Len(snaps))
        /\ Observe("pushStateBatch", Some(snaps), Null)
        /\ onlyPushes' = FALSE
        /\ pushLog' = <<>>
        /\ UNCHANGED appVars

NextUndoBatch == PushStateBatch \/ UndoCall \/ RedoCall

SpecUndoBatch == Init /\ [][NextUndoBatch]_vars

\* C25: after any pushState, undo and redo calls, batched pushState calls
\* included, the log holds at most maxHistory entries and currentIndex is
\* -1 for the empty log and otherwise between 0 and log.length - 1.
C25_HistoryWellFormed ==
    /\ Len(history) <= maxHistory
    /\ IF history = <<>> THEN currentIndex = -1
       ELSE 0 <= currentIndex /\ currentIndex <= Len(history) - 1

\* the part of C25 that holds: the log never exceeds maxHistory
C25_LogBounded == Len(history) <= maxHistory


(***************************************************************************)
(* Undo and redo as the user sees them.                                    *)
(***************************************************************************)
\* the handler that just ran committed a create, update or delete of a shape
Committed(l) == l.before # Null

\* C26: after a committed create, update or delete undo is available, and
\* an undo made next replaces the collection with the one that existed
\* immediately before that mutation.
C26_UndoInvertsLastMutation ==
    [][/\ Committed(last') => canUndo(currentIndex')
       /\ (Committed(last) /\ last'.op = "undo" /\ canUndo(currentIndex))
             => objects' = last.before[1]]_vars

\* the second half of C26 alone: an enabled undo right after a mutation
C26_EnabledUndoRestoresBefore ==
    [][(Committed(last) /\ last'.op = "undo" /\ canUndo(currentIndex))
          => objects' = last.before[1]]_vars


(***************************************************************************)
(* Several projects in one database.  The objects table holds the shapes   *)
(* of every project; fetchData keeps those of the current one.             *)
(***************************************************************************)
\* a line that belongs to another project
ForeignLine == MapObject(5, "threshold", <<PA, PC>>, "threshold")

InitDbShared ==
    /\ objects = <<StoredLine>>
    /\ foreignObjects = <<ForeignLine>>
    /\ sequences = <<>>
    /\ usedIds = {}
    /\ images = <<>>
    /\ calibration = Null
    /\ nWrites = 0

InitShared == InitUndo /\ InitPage /\ InitCanvas /\ InitEnv /\ InitDbShared

\* editing one project of two, with undo and redo
NextShared ==
    \/ SetToolMode({"select", "threshold"})
    \/ PointerDown
    \/ PointerUp
    \/ SelectFromList
    \/ DrawerUpdate
    \/ DrawerDelete
    \/ DrawerClose
    \/ Undo
    \/ Redo

SpecShared == InitShared /\ [][NextShared]_vars

\* C27: handleUndo and handleRedo leave every stored shape of another
\* project present and unchanged.
C27_UndoKeepsOtherProjects ==
    [][last'.op \in {"undo", "redo"} => foreignObjects' = foreignObjects]_vars

\* the commit handlers do leave the other projects' shapes alone
C27_CommitsKeepOtherProjects ==
    [][last'.op \notin {"undo", "redo"} => foreignObjects' = foreignObjects]_vars


(***************************************************************************)
(* handleSequenceAdd step by step.  The handler awaits createSequence and  *)
(* addToSequence, and addToSequence awaits a get and then an update; a     *)
(* pointer-down that arrives at an await starts another run, whose         *)
(* callback closed over the activeSequence of the latest render.  Each     *)
(* storage request is its own transaction, served in any order once        *)
(* issued.  activeSequence of the runs that are never interleaved is the   *)
(* stored objectIds of the journey; here the table and the state are       *)
(* apart.                                                                  *)
(***************************************************************************)
\* pointer-downs on shapes in one recording session
MaxClicks == 3

SeqCall(objectId, pc, sequenceId, objectIds) ==
    [objectId |-> objectId, pc |-> pc, sequenceId |-> sequenceId,
     objectIds |-> objectIds]

\* recording is switched on, once
StartRecording ==
    /\ ~sequenceMode
    /\ ToggleSequenceMode

\* a pointer-down hits shape objects[i] while recording: handleSequenceAdd
\* starts and stops at its first await
SeqClick ==
    \E i \in 1..Len(objects) :
        /\ sequenceMode
        /\ Len(seqCalls) < MaxClicks
        /\ seqCalls' = Append(seqCalls,
               IF activeSequenceId = 0
               THEN SeqCall(objects[i].id, "createSequence", 0, <<>>)
               ELSE SeqCall(objects[i].id, "get", activeSequenceId, <<>>))
        /\ UNCHANGED <<undoVars, obsVars, sequences, activeSequenceId>>
        /\ UNCHANGED <<toolMode, sequenceMode, activeSequence,
                       selectedObjectId, selectedImageId, propertiesOpen,
                       pendingCalibration, calibrationDialog, isSaving>>
        /\ UNCHANGED <<objects, foreignObjects, usedIds, images, calibration,
                       nWrites, canvasVars, envVars>>

\* createSequence resolves: the journey is stored, setActiveSequence runs
\* and addToSequence issues its get
SeqCreated ==
    \E k \in 1..Len(seqCalls) :
        /\ seqCalls[k].pc = "createSequence"
        /\ sequences' = Append(sequences, <<>>)
        /\ activeSequenceId' = Len(sequences) + 1
        /\ seqCalls' = [seqCalls EXCEPT
               ![k] = SeqCall(@.objectId, "get", Len(sequences) + 1, <<>>)]
        /\ UNCHANGED <<undoVars, obsVars>>
        /\ UNCHANGED <<toolMode, sequenceMode, activeSequence,
                       selectedObjectId, selectedImageId, propertiesOpen,
                       pendingCalibration, calibrationDialog, isSaving>>
        /\ UNCHANGED <<objects, foreignObjects, usedIds, images, calibration,
                       nWrites, canvasVars, envVars>>

\* sequences.get resolves: addToSequence holds the journey it read and
\* issues the update
SeqGot ==
    \E k \in 1..Len(seqCalls) :
        /\ seqCalls[k].pc = "get"
        /\ seqCalls' = [seqCalls EXCEPT
               ![k] = SeqCall(@.objectId, "update", @.sequenceId,
                              sequences[@.sequenceId])]
        /\ UNCHANGED <<undoVars, obsVars, sequences, activeSequenceId>>
        /\ UNCHANGED <<toolMode, sequenceMode, activeSequence,
                       selectedObjectId, selectedImageId, propertiesOpen,
                       pendingCalibration, calibrationDialog, isSaving>>
        /\ UNCHANGED <<objects, foreignObjects, usedIds, images, calibration,
                       nWrites, canvasVars, envVars>>

\* sequences.update resolves: objectIds becomes what was read plus the id
SeqUpdated ==
    \E k \in 1..Len(seqCalls) :
        /\ seqCalls[k].pc = "update"
        /\ sequences' = [sequences EXCEPT ![seqCalls[k].sequenceId] =
               Append(seqCalls[k].objectIds, seqCalls[k].objectId)]
        /\ seqCalls' = [seqCalls EXCEPT
               ![k] = SeqCall(@.objectId, "done", @.sequenceId, <<>>)]
        /\ UNCHANGED <<undoVars, obsVars, activeSequenceId>>
        /\ UNCHANGED <<toolMode, sequenceMode, activeSequence,
                       selectedObjectId, selectedImageId, propertiesOpen,
                       pendingCalibration, calibrationDialog, isSaving>>
        /\ UNCHANGED <<objects, foreignObjects, usedIds, images, calibration,
                       nWrites, canvasVars, envVars>>

NextJourney ==
    StartRecording \/ SeqClick \/ SeqCreated \/ SeqGot \/ SeqUpdated

SpecJourney == InitEdit /\ [][NextJourney]_vars

\* every run of the session has finished
SeqSettled ==
    /\ seqCalls # <<>>
    /\ \A k \in 1..Len(seqCalls) : seqCalls[k].pc = "done"

\* the ids of the shapes hit, in click order
Clicked == [k \in 1..Len(seqCalls) |-> seqCalls[k].objectId]

\* C28: once the runs of a recording session have finished, exactly one
\* journey was created and its objectIds are the shapes hit, in click
\* order, each once.
C28_ClicksRecordedInOneJourney ==
    SeqSettled => (Len(sequences) = 1 /\ sequences[1] = Clicked)


\* C29: after every pointer-up or pointer-leave on the canvas no image drag
\* is in progress.
C29_NoDragAfterPointerUp ==
    [][last'.op \in {"pointerUp", "pointerLeave"} => draggingImageId' = 0]_vars

\* the consequence C29 draws: a pointer-move made while the pointer is not
\* pressed moves no image
C29_HoverMovesNoImage ==
    [][(last'.op = "pointerMove" /\ ~pointerPressed)
          => transientImagePosition' = transientImagePosition]_vars


\* C30: at most one of selectedObjectId and selectedImageId is non-null.
C30_SelectionsExclusive == ~(selectedObjectId # 0 /\ selectedImageId # 0)

\* what does hold: selecting an image clears the shape selection
C30_ImageSelectClearsShape ==
    [][(selectedImageId' # 0 /\ selectedImageId' # selectedImageId)
          => selectedObjectId' = 0]_vars

=============================================================================
